---- MODULE Spec2Model ----
(***************************************************************************)
(* Model of models/errors.go: the CommonEdgexError chain (Kind, Error,    *)
(* Unwrap, NewCommonEdgexError) and of the HTTP boundary (ResponseMap,     *)
(* ToHttpResponse, JsonDecoder, FromServiceClientError).                   *)
(*                                                                         *)
(* A Go string is a sequence of symbols.  The symbol "-" is the one byte   *)
(* '-'; every other symbol stands for a run of bytes holding no '-'.       *)
(* An error value is the sequence of the nodes of its chain, outermost     *)
(* first: node i+1 is what Unwrap of node i returns, the nil error is the  *)
(* empty sequence.                                                         *)
(***************************************************************************)
EXTENDS Integers, Sequences, FiniteSets, TLC

\* Longest error chain built or drawn.
MaxDepth == 3
\* Longest Message (in symbols) of a serialized remote error.
MaxMsgLen == 2

---------------------------------------------------------------------------
\* models.Code constants
KindUnknown == "Unknown"
KindDatabaseError == "Database"
KindCommunicationError == "Communication"
KindEntityDoesNotExistError == "NotFound"
KindEntityStateError == "InvalidState"
KindServerError == "Unknown/Unexpected"
KindLimitExceeded == "LimitExceeded"

\* The Code values the model draws from: the seven constants, the zero value
\* of the string type, and a string that is none of the constants.
Codes ==
  { KindUnknown, KindDatabaseError, KindCommunicationError,
    KindEntityDoesNotExistError, KindEntityStateError, KindServerError,
    KindLimitExceeded, "", "Bogus" }

\* net/http status codes named by ResponseMap
StatusInternalServerError == 500
StatusNotFound == 404
StatusConflict == 409
StatusRequestEntityTooLarge == 413

---------------------------------------------------------------------------
\* Error values

Nil == << >>

\* A CommonEdgexError node (its err field is the rest of the chain).
CommonEdgexError(kind, message, op) ==
  [type |-> "CommonEdgexError", Kind |-> kind, Message |-> message, op |-> op]

\* An error of any other type: its Error() text is Message.
Opaque(message) ==
  [type |-> "error", Kind |-> "", Message |-> message, op |-> << >>]

IsCommonEdgexError(node) == node.type = "CommonEdgexError"

\* The zero value of CommonEdgexError (var e CommonEdgexError).
ZeroCommonEdgexError == << CommonEdgexError("", << >>, << >>) >>

\* What addCallerInformation returns: a string fixed by the call site.
addCallerInformation == << "[file]-func(line n)\n" >>

\* NewCommonEdgexError(kind, message, wrappedError)
NewCommonEdgexError(kind, message, wrappedError) ==
  << CommonEdgexError(kind, message, addCallerInformation) >> \o wrappedError

\* CommonEdgexError.Unwrap, and the Unwrap of a wrapping error of another type.
Unwrap(e) == Tail(e)

---------------------------------------------------------------------------
\* errors.As(err, &e) with e a CommonEdgexError: walk the chain from the
\* outermost error by Unwrap and stop at the first CommonEdgexError.  target
\* is that error (with the chain it wraps), or the untouched zero value.
RECURSIVE As(_)
As(err) ==
  IF err = Nil THEN [ok |-> FALSE, target |-> ZeroCommonEdgexError]
  ELSE IF IsCommonEdgexError(Head(err)) THEN [ok |-> TRUE, target |-> err]
  ELSE As(Unwrap(err))

\* Mutant of Kind: the innermost CommonEdgexError of the chain wins.
KindInnermost(err) ==
  LET idx == { i \in 1..Len(err) : IsCommonEdgexError(err[i]) }
  IN  IF idx = {} THEN KindUnknown
      ELSE err[CHOOSE i \in idx : \A j \in idx : j <= i].Kind

\* func Kind(err error) Code
Kind(err) ==
  LET e == As(err)
  IN  IF ~e.ok THEN KindUnknown ELSE Head(e.target).Kind

RECURSIVE Error(_)
\* Mutant of Error: the op of a node with a cause is left out.
ErrorWithoutOp(ce) ==
  IF Unwrap(ce) = Nil THEN Head(ce).Message
  ELSE Head(ce).Message \o << ": " >> \o Error(Unwrap(ce))

\* func (ce CommonEdgexError) Error() string; ce.err.Error() dispatches on
\* the type of the nested error, whose Error() is its own text when it is
\* not a CommonEdgexError.
Error(ce) ==
  IF ~IsCommonEdgexError(Head(ce)) THEN Head(ce).Message
  ELSE IF Unwrap(ce) = Nil THEN Head(ce).Message
  ELSE Head(ce).op \o << " " >> \o Head(ce).Message \o << ": " >>
         \o Error(Unwrap(ce))

---------------------------------------------------------------------------
\* State: the value of the package variable ResponseMap.
VARIABLE responseMap

\* Mutant of ResponseMap: the KindLimitExceeded entry is missing.
ResponseMapWithoutLimit ==
  (KindUnknown :> StatusInternalServerError)
    @@ (KindDatabaseError :> StatusInternalServerError)
    @@ (KindServerError :> StatusInternalServerError)
    @@ (KindCommunicationError :> StatusInternalServerError)
    @@ (KindEntityDoesNotExistError :> StatusNotFound)
    @@ (KindEntityStateError :> StatusConflict)

\* var ResponseMap = map[models.Code]int{...}: the value it is initialized to.
ResponseMap ==
  (KindUnknown :> StatusInternalServerError)
    @@ (KindDatabaseError :> StatusInternalServerError)
    @@ (KindServerError :> StatusInternalServerError)
    @@ (KindCommunicationError :> StatusInternalServerError)
    @@ (KindEntityDoesNotExistError :> StatusNotFound)
    @@ (KindEntityStateError :> StatusConflict)
    @@ (KindLimitExceeded :> StatusRequestEntityTooLarge)

\* statusCode, ok := ResponseMap[k]: a missing key reads as the zero int.
Lookup(k) == IF k \in DOMAIN responseMap THEN responseMap[k] ELSE 0

---------------------------------------------------------------------------
\* encoding/json on a CommonEdgexError: the two tagged fields, in the order
\* of the struct; op and err are unexported and are not written.  An error
\* of another type has no exported field; the nil interface is null.
JsonMarshal(v) ==
  IF v = Nil THEN << "null" >>
  ELSE IF IsCommonEdgexError(Head(v))
    THEN << "{", "\"kind\":", Head(v).Kind, ",\"message\":" >>
           \o Head(v).Message \o << "}" >>
  ELSE << "{", "}" >>

\* func JsonDecoder(e interface{}) ([]byte, error)
JsonDecoder(e) == [bytes |-> JsonMarshal(e), err |-> FALSE]

\* The decoder argument of ToHttpResponse applied to a value.  A decoder is
\* JsonDecoder, or a function failing on the values of a dynamic type, which
\* then returns failBytes with its error.
Decode(decoder, v) ==
  LET dyn == IF v # Nil /\ IsCommonEdgexError(Head(v))
               THEN "CommonEdgexError" ELSE "error"
  IN  IF dyn \in decoder.fails
        THEN [bytes |-> decoder.failBytes, err |-> TRUE]
        ELSE JsonDecoder(v)

Decoders ==
  [fails : SUBSET {"CommonEdgexError", "error"},
   failBytes : {<< >>, << "partial" >>}]

\* The calls made on the http.ResponseWriter.
WriteHeader(statusCode) ==
  [call |-> "WriteHeader", statusCode |-> statusCode, body |-> << >>]
Write(bytes) == [call |-> "Write", statusCode |-> 0, body |-> bytes]

\* The calls ToHttpResponse makes once a CommonEdgexError is at hand
\* (lines 201-210), with the status code given.
RespondWith(statusCode, ce, decoder) ==
  LET r == Decode(decoder, ce)
  IN  << WriteHeader(statusCode),
         IF r.err THEN Write(<< "Unable to process error" >>)
                  ELSE Write(r.bytes) >>

\* Mutant of ToHttpResponse: the status is looked up for Kind(e) only when
\* the outermost error is a CommonEdgexError, and is 500 otherwise.
ToHttpResponseOutermostOnly(e, decoder) ==
  LET found == As(e)
  IN  IF ~found.ok THEN << WriteHeader(StatusInternalServerError) >>
      ELSE RespondWith(IF IsCommonEdgexError(Head(e))
                         THEN Lookup(Kind(found.target))
                         ELSE StatusInternalServerError,
                       found.target, decoder)

\* func ToHttpResponse(e error, w http.ResponseWriter, decoder ...): the
\* sequence of calls made on w.  (kind := Kind(e) of line 182 is not read.)
ToHttpResponse(e, decoder) ==
  LET found == As(e)
      ce == found.target
      raw == Decode(decoder, e)
      opaque ==
        IF found.ok THEN << >>
        ELSE << WriteHeader(StatusInternalServerError),
                IF raw.err THEN Write(raw.bytes)
                           ELSE Write(<< "Unknown error" >>) >>
      returned == ~found.ok /\ raw.err
  IN  IF returned THEN opaque
      ELSE opaque \o RespondWith(Lookup(Kind(ce)), ce, decoder)

---------------------------------------------------------------------------
\* strings.Split(s, "-"): the substrings between the separators, one more
\* than there are separators.
RECURSIVE Split(_)
Split(s) ==
  LET seps == { i \in 1..Len(s) : s[i] = "-" }
  IN  IF seps = {} THEN << s >>
      ELSE LET i == CHOOSE k \in seps : \A j \in seps : k <= j
           IN  << SubSeq(s, 1, i - 1) >> \o Split(SubSeq(s, i + 1, Len(s)))

\* The symbols a serialized Message may hold.
MessageSymbols == {"m", "-"}

\* json.Unmarshal(data, &e) with e a zero CommonEdgexError: data must be a
\* whole JSON object; "kind" and "message" fill Kind and Message, a field
\* that is absent keeps its zero value, op and err are never filled.
Unmarshal(data) ==
  LET n == Len(data)
      object == n >= 2 /\ data[1] = "{" /\ data[n] = "}"
      empty == object /\ n = 2
      kindOnly == object /\ n = 4 /\ data[2] = "\"kind\":"
                    /\ data[3] \notin {"{", "}", "-"}
      both == object /\ n >= 5 /\ data[2] = "\"kind\":"
                /\ data[3] \notin {"{", "}", "-"}
                /\ data[4] = ",\"message\":"
                /\ \A i \in 5..(n - 1) : data[i] \in MessageSymbols
  IN  IF empty THEN [err |-> Nil, e |-> ZeroCommonEdgexError]
      ELSE IF kindOnly
        THEN [err |-> Nil, e |-> << CommonEdgexError(data[3], << >>, << >>) >>]
      ELSE IF both
        THEN [err |-> Nil,
              e |-> << CommonEdgexError(data[3], SubSeq(data, 5, n - 1), << >>) >>]
      ELSE [err |-> << Opaque(<< "json: cannot unmarshal" >>) >>,
            e |-> ZeroCommonEdgexError]

\* Mutant of FromServiceClientError: the synthesized error is KindUnknown.
FromServiceClientErrorAsUnknown(esc) ==
  LET body == Split(esc)
  IN  IF Len(body) < 2 THEN [panic |-> TRUE, value |-> Nil]
      ELSE LET u == Unmarshal(body[2])
           IN  IF u.err # Nil
                 THEN [panic |-> FALSE,
                       value |-> NewCommonEdgexError(KindUnknown,
                                   << "Client error" >>, u.err)]
                 ELSE [panic |-> FALSE, value |-> u.e]

\* func FromServiceClientError(esc *types.ErrServiceClient) models.EdgexError,
\* on the text esc.Error().  body[1] of a one-element slice is a run-time
\* panic (index out of range).
FromServiceClientError(esc) ==
  LET body == Split(esc)
  IN  IF Len(body) < 2 THEN [panic |-> TRUE, value |-> Nil]
      ELSE LET u == Unmarshal(body[2])
           IN  IF u.err # Nil
                 THEN [panic |-> FALSE,
                       value |-> NewCommonEdgexError(KindServerError,
                                   << "Client error" >>, u.err)]
                 ELSE [panic |-> FALSE, value |-> u.e]

---------------------------------------------------------------------------
\* State: the error value at hand and the outcome of the last call.
VARIABLES
  err,        \* the error value the calls are made on
  lastOp,     \* the function called last
  kindOut,    \* what Kind returned
  strOut,     \* what Error returned
  sink,       \* the calls ToHttpResponse made on the ResponseWriter
  decoder,    \* the decoder ToHttpResponse was given
  esc,        \* the text FromServiceClientError was given
  fromClient, \* err is what FromServiceClientError returned for esc
  panicked    \* the goroutine panicked

vars ==
  << responseMap, err, lastOp, kindOut, strOut, sink, decoder, esc,
     fromClient, panicked >>

NoDecoder == [fails |-> {}, failBytes |-> << >>]

\* The nodes error chains are drawn from.
Nodes ==
  { CommonEdgexError(k, << "m" >>, addCallerInformation) : k \in Codes }
    \cup { Opaque(<< "o" >>) }

RECURSIVE ChainsOfLen(_)
ChainsOfLen(n) ==
  IF n = 0 THEN { Nil }
  ELSE { << node >> \o c : node \in Nodes, c \in ChainsOfLen(n - 1) }

Chains == UNION { ChainsOfLen(n) : n \in 0..MaxDepth }

RECURSIVE MessagesOfLen(_)
MessagesOfLen(n) ==
  IF n = 0 THEN { << >> }
  ELSE { << c >> \o m : c \in MessageSymbols, m \in MessagesOfLen(n - 1) }

Messages == UNION { MessagesOfLen(n) : n \in 0..MaxMsgLen }

Prefixes == { << >>, << "svc" >> }

\* The serialization of a CommonEdgexError of the given kind and message.
Payload(kind, message) ==
  JsonMarshal(<< CommonEdgexError(kind, message, << >>) >>)

Payloads ==
  { Payload(k, m) : k \in Codes, m \in Messages }
    \cup { << "{", "}" >>, << "{", "\"kind\":", KindEntityDoesNotExistError, "}" >>,
           << "{" >>, << "not json" >>, << >> }

\* The texts of the ErrServiceClient values: with the delimiter, and without.
ClientErrors ==
  { p \o << "-" >> \o d : p \in Prefixes, d \in Payloads }
    \cup { << >>, << "svc" >>, << "{", "}" >>,
           Payload(KindEntityDoesNotExistError, << "m" >>) }

Init ==
  /\ responseMap = ResponseMap
  /\ err \in Chains
  /\ lastOp = "init"
  /\ kindOut = ""
  /\ strOut = << >>
  /\ sink = << >>
  /\ decoder = NoDecoder
  /\ esc = << >>
  /\ fromClient = FALSE
  /\ panicked = FALSE

InitClient ==
  /\ responseMap = ResponseMap
  /\ err = Nil
  /\ lastOp = "init"
  /\ kindOut = ""
  /\ strOut = << >>
  /\ sink = << >>
  /\ decoder = NoDecoder
  /\ esc = << >>
  /\ fromClient = FALSE
  /\ panicked = FALSE

\* err = NewCommonEdgexError(kind, message, err) or (.., nil)
CallNewCommonEdgexError ==
  /\ ~panicked
  /\ Len(err) < MaxDepth
  /\ \E kind \in Codes, wrappedError \in {Nil, err} :
       err' = NewCommonEdgexError(kind, << "m" >>, wrappedError)
  /\ lastOp' = "NewCommonEdgexError"
  /\ kindOut' = ""
  /\ strOut' = << >>
  /\ sink' = << >>
  /\ decoder' = NoDecoder
  /\ esc' = << >>
  /\ fromClient' = FALSE
  /\ UNCHANGED << responseMap, panicked >>

\* Kind(err)
CallKind ==
  /\ ~panicked
  /\ kindOut' = Kind(err)
  /\ lastOp' = "Kind"
  /\ strOut' = << >>
  /\ sink' = << >>
  /\ decoder' = NoDecoder
  /\ UNCHANGED << responseMap, err, esc, fromClient, panicked >>

\* err.Error(), err a CommonEdgexError
CallError ==
  /\ ~panicked
  /\ err # Nil
  /\ IsCommonEdgexError(Head(err))
  /\ strOut' = Error(err)
  /\ lastOp' = "Error"
  /\ kindOut' = ""
  /\ sink' = << >>
  /\ decoder' = NoDecoder
  /\ UNCHANGED << responseMap, err, esc, fromClient, panicked >>

\* ToHttpResponse(err, w, d) on a fresh ResponseWriter w
CallToHttpResponse ==
  /\ ~panicked
  /\ \E d \in Decoders :
       /\ sink' = ToHttpResponse(err, d)
       /\ decoder' = d
  /\ lastOp' = "ToHttpResponse"
  /\ kindOut' = ""
  /\ strOut' = << >>
  /\ UNCHANGED << responseMap, err, esc, fromClient, panicked >>

\* err = FromServiceClientError(esc)
CallFromServiceClientError ==
  /\ ~panicked
  /\ \E text \in ClientErrors :
       LET r == FromServiceClientError(text)
       IN  /\ esc' = text
           /\ err' = r.value
           /\ panicked' = r.panic
           /\ fromClient' = ~r.panic
  /\ lastOp' = "FromServiceClientError"
  /\ kindOut' = ""
  /\ strOut' = << >>
  /\ sink' = << >>
  /\ decoder' = NoDecoder
  /\ UNCHANGED responseMap

Next ==
  \/ CallNewCommonEdgexError
  \/ CallKind
  \/ CallError
  \/ CallToHttpResponse

NextClient ==
  \/ CallFromServiceClientError
  \/ CallKind
  \/ CallError
  \/ CallToHttpResponse

\* Errors built in the process and handed to the boundary.
Spec == Init /\ [][Next]_vars

\* Errors decoded from a remote service client and handed to the boundary.
SpecClient == InitClient /\ [][NextClient]_vars

---------------------------------------------------------------------------
\* Properties

StatusCalls(calls) == SelectSeq(calls, LAMBDA c : c.call = "WriteHeader")
BodyCalls(calls) == SelectSeq(calls, LAMBDA c : c.call = "Write")

\* The positions of the CommonEdgexErrors of a chain, and the shallowest.
StructuredAt(e) == { i \in 1..Len(e) : IsCommonEdgexError(e[i]) }
Nearest(e) == CHOOSE i \in StructuredAt(e) : \A j \in StructuredAt(e) : i <= j

\* C1: every call of ToHttpResponse writes exactly one status and exactly
\* one body to the response sink, whatever the chain and the encoder.
C1_OneStatusOneBody ==
  lastOp = "ToHttpResponse" =>
    /\ Len(StatusCalls(sink)) = 1
    /\ Len(BodyCalls(sink)) = 1

\* C2: for an error with no CommonEdgexError in its chain, the status
\* written is 500 and the body written is the encoder's output for the raw
\* error when encoding succeeds and "Unknown error" when it fails.
C2_OpaqueStatusAndBody ==
  (lastOp = "ToHttpResponse" /\ StructuredAt(err) = {}) =>
    /\ StatusCalls(sink) # << >>
    /\ BodyCalls(sink) # << >>
    /\ StatusCalls(sink)[1].statusCode = 500
    /\ BodyCalls(sink)[1].body =
         IF "error" \in decoder.fails THEN << "Unknown error" >>
         ELSE JsonMarshal(err)

\* C3: for an error with a CommonEdgexError in its chain, the one status
\* written is the table's entry for the Kind of the shallowest one (413 for
\* LimitExceeded), and the one body written is the encoder's output for that
\* CommonEdgexError, or "Unable to process error" when encoding fails.
C3_StructuredStatusAndBody ==
  (lastOp = "ToHttpResponse" /\ StructuredAt(err) # {}) =>
    LET ce == SubSeq(err, Nearest(err), Len(err))
        kind == Head(ce).Kind
    IN  /\ Len(sink) = 2
        /\ sink[1].call = "WriteHeader"
        /\ sink[2].call = "Write"
        /\ kind = "LimitExceeded" => sink[1].statusCode = 413
        /\ kind = "NotFound" => sink[1].statusCode = 404
        /\ kind = "InvalidState" => sink[1].statusCode = 409
        /\ kind \in {"Unknown", "Database", "Communication", KindServerError}
             => sink[1].statusCode = 500
        /\ sink[2].body =
             IF "CommonEdgexError" \in decoder.fails
               THEN << "Unable to process error" >>
               ELSE << "{", "\"kind\":", kind, ",\"message\":" >>
                      \o Head(ce).Message \o << "}" >>

\* C3 witness: a LimitExceeded error under an opaque wrapper was answered
\* with 413 and the encoded error.
C3_Witness ==
  /\ lastOp = "ToHttpResponse"
  /\ Len(err) >= 2
  /\ ~IsCommonEdgexError(err[1])
  /\ IsCommonEdgexError(err[2])
  /\ err[2].Kind = KindLimitExceeded
  /\ decoder.fails = {}
  /\ sink = << WriteHeader(413), Write(JsonMarshal(Tail(err))) >>

\* C4: Kind returns the Kind of the shallowest CommonEdgexError of the
\* chain, whatever lies above or below it, and Unknown when there is none.
C4_KindOfShallowest ==
  lastOp = "Kind" =>
    kindOut = IF StructuredAt(err) = {} THEN "Unknown"
              ELSE err[Nearest(err)].Kind

\* C4 witness: Kind was called on two opaque wrappers around a NotFound
\* error that wraps, or is, the innermost error.
C4_Witness ==
  /\ lastOp = "Kind"
  /\ Len(err) = 3
  /\ ~IsCommonEdgexError(err[1])
  /\ ~IsCommonEdgexError(err[2])
  /\ IsCommonEdgexError(err[3])
  /\ err[3].Kind = "NotFound"
  /\ kindOut = "NotFound"

\* The text of a chain whose head is a CommonEdgexError: op, " ", Message
\* and ": " of every node that has a cause, down to the first node that is
\* not a CommonEdgexError or has no cause, which gives its text alone.
RECURSIVE Described(_, _)
Described(e, i) ==
  IF i = Len(e) \/ ~IsCommonEdgexError(e[i]) THEN e[i].Message
  ELSE e[i].op \o << " " >> \o e[i].Message \o << ": " >> \o Described(e, i + 1)

\* C5: Error of a CommonEdgexError is its Message when it has no cause, and
\* op + " " + Message + ": " + the text of the cause when it has one,
\* recursively down the chain.
C5_ErrorText ==
  lastOp = "Error" =>
    /\ Len(err) = 1 => strOut = err[1].Message
    /\ Len(err) > 1 =>
         strOut = err[1].op \o << " " >> \o err[1].Message \o << ": " >>
                    \o Described(err, 2)

\* C5 witness: Error was called on a CommonEdgexError whose cause is a
\* CommonEdgexError with a cause of its own.
C5_Witness ==
  /\ lastOp = "Error"
  /\ Len(err) = 3
  /\ IsCommonEdgexError(err[2])
  /\ Len(strOut) = 9

\* C6: at every moment the table has one entry for each of the seven Kind
\* constants and no other: 500 for Unknown, Database, ServerError and
\* Communication, 404 for NotFound, 409 for InvalidState, 413 for
\* LimitExceeded.
C6_TableExhaustive ==
  LET kinds == { KindUnknown, KindDatabaseError, KindCommunicationError,
                 KindEntityDoesNotExistError, KindEntityStateError,
                 KindServerError, KindLimitExceeded }
  IN  /\ Cardinality(kinds) = 7
      /\ DOMAIN responseMap = kinds
      /\ \A k \in kinds :
           responseMap[k] =
             CASE k = KindEntityDoesNotExistError -> 404
               [] k = KindEntityStateError -> 409
               [] k = KindLimitExceeded -> 413
               [] OTHER -> 500

\* C6 witness: the table was read for a LimitExceeded error.
C6_Witness ==
  /\ lastOp = "ToHttpResponse"
  /\ err # Nil
  /\ IsCommonEdgexError(err[1])
  /\ err[1].Kind = KindLimitExceeded
  /\ sink[1].statusCode = 413

\* C7: a text <prefix>-<payload> whose payload serializes a CommonEdgexError
\* of kind c and message m decodes to a CommonEdgexError of kind c and
\* message m.
C7_DecodesPayload ==
  lastOp = "FromServiceClientError" =>
    \A p \in Prefixes, c \in Codes, m \in Messages :
      esc = p \o << "-" >> \o Payload(c, m) =>
        /\ ~panicked
        /\ err # Nil
        /\ IsCommonEdgexError(Head(err))
        /\ Head(err).Kind = c
        /\ Head(err).Message = m

\* C8: decoding a text without the delimiter fails with an error value; it
\* does not panic.
C8_NoDelimiterNoPanic ==
  (lastOp = "FromServiceClientError" /\ \A i \in 1..Len(esc) : esc[i] # "-")
    => ~panicked

\* The second segment of esc exists and is not the serialization of a
\* CommonEdgexError.
SecondSegmentUndecodable ==
  /\ fromClient
  /\ \E i \in 1..Len(esc) : esc[i] = "-"
  /\ Unmarshal(Split(esc)[2]).err # Nil

\* C9: when the second segment cannot be deserialized the result is a
\* ServerError CommonEdgexError with the message "Client error" and the
\* deserialization failure as its cause; Kind of it is ServerError and
\* ToHttpResponse on it writes 500.
C9_ClientErrorOnBadPayload ==
  SecondSegmentUndecodable =>
    /\ Len(err) = 2
    /\ IsCommonEdgexError(err[1])
    /\ err[1].Kind = KindServerError
    /\ err[1].Message = << "Client error" >>
    /\ Tail(err) = Unmarshal(Split(esc)[2]).err
    /\ lastOp = "Kind" => kindOut = KindServerError
    /\ lastOp = "ToHttpResponse" =>
         /\ Len(StatusCalls(sink)) = 1
         /\ sink[1] = WriteHeader(500)

\* C9 witness: the payload was cut at a '-' of its message, and the result
\* was answered with 500.
C9_Witness ==
  /\ SecondSegmentUndecodable
  /\ lastOp = "ToHttpResponse"
  /\ sink[1] = WriteHeader(500)

\* C10: every status written to the sink is 404, 409, 413 or 500.
C10_StatusAlwaysMapped ==
  lastOp = "ToHttpResponse" =>
    \A i \in 1..Len(sink) :
      sink[i].call = "WriteHeader" => sink[i].statusCode \in {404, 409, 413, 500}

====
